---- MODULE Spec2Model ----
\* A model of the DFS server (DFSServerImpl in src/client/fuse_client.cpp,
\* lines 107-255): the four handlers Read, Write, Unlink and GetAttr, the
\* process-wide version table file_versions guarded by version_mutex, and the
\* local storage the handlers act on; and of the hooks of the mounted file
\* system (lines 19-93), which call those handlers.
EXTENDS Integers, Sequences, FiniteSets, TLC

\* ---------------------------------------------------------------- bounds
\* The server clock (std::time) runs over 1..MaxClock.
MaxClock == 2
\* Request offsets are 0..MaxOffset, Read sizes 0..MaxSize.
MaxOffset == 1
MaxSize == 2

\* Handler threads of the synchronous gRPC server.
Handlers == {"h1", "h2"}
\* Paths a request may name. The empty path is the one the storage layer can
\* never open, create, stat or remove (open("") fails with ENOENT).
Paths == {"a.txt", "b.txt", ""}
\* Payloads of Write requests; bytes are 1 and 2, byte 0 is NUL.
Payloads == {<<>>, <<1>>, <<2, 1>>}
\* Contents of a file that is in storage before the server starts.
InitialContents == {<<1, 2>>}

ServerTimes == 1..MaxClock
\* request->mtime(): the times a client may declare, from the epoch on.
ClientTimes == 0..MaxClock
Offsets == 0..MaxOffset
Sizes == 0..MaxSize

\* file_versions.find(path) == file_versions.end()
NoRecord == 0 - 1
\* The handler that holds version_mutex, or NoHolder.
NoHolder == "none"

\* A workload is the set of requests the clients send: the paths, offsets,
\* Read sizes, Write payloads and declared times they use, and whether the
\* history variables are kept for it, or at least the record a call found
\* when it began (`versions`). `local` says that the clients run on the
\* server's host and so read the server's clock.
Workload(P, O, S, D, C, hist) ==
    [paths |-> P, offsets |-> O, sizes |-> S, payloads |-> D, times |-> C,
     history |-> hist, versions |-> hist, local |-> FALSE]

VARIABLES
    fs,             \* local storage: path -> file (exists, data, mtime)
    file_versions,  \* path -> time_t, or NoRecord
    version_mutex,  \* the handler inside a lock_guard scope, or NoHolder
    clock,          \* what std::time(nullptr) returns on the server
    pc,             \* handler -> position in its handler function
    req,            \* handler -> the request it serves
    loc,            \* handler -> locals of Write (server_mtime, file stream)
    reply,          \* handler -> status and response of its last call
    before,         \* history: handler -> file and record when its Write began
    accepted,       \* history: path -> client_mtime of the admitted Writes
    preexisting     \* history: the paths in storage when the server started

vars == <<fs, file_versions, version_mutex, clock, pc, req, loc, reply,
          before, accepted, preexisting>>

\* ---------------------------------------------------------------- helpers
Min(a, b) == IF a < b THEN a ELSE b
Max(a, b) == IF a > b THEN a ELSE b

NoFile == [exists |-> FALSE, data |-> <<>>, mtime |-> 0]
File(d, t) == [exists |-> TRUE, data |-> d, mtime |-> t]

\* Whether the storage layer can hold a file at this path at all.
Storable(p) == p # ""

\* A request, and `via`: who issued it, the stub of a remote client or one of
\* the hooks of the mounted file system.
NoRequest == [op |-> "none", path |-> "", offset |-> 0, size |-> 0,
              data |-> <<>>, mtime |-> 0, via |-> "stub"]
NoReply == [status |-> "NONE", data |-> <<>>, n |-> 0, flag |-> FALSE,
            mtime |-> 0]
NoLocals == [server_mtime |-> 0, fd |-> "closed", pending |-> FALSE]
NoHistory == [last |-> NoRecord, max |-> NoRecord, increasing |-> TRUE]
NoSnapshot == [file |-> NoFile, version |-> NoRecord, last |-> NoRecord]

\* ------------------------------------------------------- storage, as code
\* Read, lines 146-151: seekg(offset), a buffer of `size` NUL bytes,
\* file.read into it; gcount() is the number of bytes the read produced.
ReadCount(content, offset, size) ==
    Min(size, Max(0, Len(content) - offset))

\* The buffer after file.read: the bytes read, then the untouched NUL bytes.
ReadBuffer(content, offset, size) ==
    LET n == ReadCount(content, offset, size)
    IN  [i \in 1..size |-> IF i <= n THEN content[offset + i] ELSE 0]

\* response->set_data(buffer), line 150.
ReadData(content, offset, size) == ReadBuffer(content, offset, size)

\* A write that cuts the file off behind the bytes it wrote.
WriteAtTruncating(content, offset, data) ==
    IF Len(data) = 0 THEN content
    ELSE [i \in 1..(offset + Len(data)) |->
            IF i > offset THEN data[i - offset]
            ELSE IF i <= Len(content) THEN content[i]
            ELSE 0]

\* Write, lines 188-189: seekp(offset), write(data). An empty payload issues
\* no write at all; a write past the end leaves a hole of NUL bytes.
WriteAt(content, offset, data) ==
    IF Len(data) = 0 THEN content
    ELSE [i \in 1..Max(Len(content), offset + Len(data)) |->
            IF i > offset /\ i <= offset + Len(data) THEN data[i - offset]
            ELSE IF i <= Len(content) THEN content[i]
            ELSE 0]

\* The file after the bytes of a write reach it at server time `now`.
Stored(file, offset, data, now) ==
    IF Len(data) = 0 THEN file
    ELSE File(WriteAt(file.data, offset, data), now)

\* The admission test with its operands exchanged.
StaleReversed(client_mtime, server_mtime) == server_mtime < client_mtime

\* Write, line 173: the admission test.
Stale(client_mtime, server_mtime) == client_mtime < server_mtime

\* Write, lines 164-170: server_mtime stays 0 when the path has no record.
Lookup(versions, path) ==
    IF versions[path] # NoRecord THEN versions[path] ELSE 0

\* The record set to the time the client declared.
NewVersionDeclared(client_mtime, now) == client_mtime

\* Write, line 194: the value recorded for the path.
NewVersion(client_mtime, now) == now

\* The history of admitted Writes to one path, extended by client_mtime c.
Admit(past, c) ==
    [last |-> c, max |-> Max(past.max, c),
     increasing |-> past.increasing /\ c > past.max]

\* ---------------------------------------------------------------- Init
\* The server starts with an empty version table, over whatever files its
\* directory holds; W.paths are the paths the clients will name.
InitIn(W) ==
    /\ fs \in {f \in [Paths -> {NoFile} \cup {File(d, 0) : d \in InitialContents}] :
                 \A p \in Paths : ~(Storable(p) /\ p \in W.paths) => f[p] = NoFile}
    /\ preexisting = {p \in Paths : fs[p].exists}
    /\ file_versions = [p \in Paths |-> NoRecord]
    /\ version_mutex = NoHolder
    /\ clock = 1
    /\ pc = [h \in Handlers |-> "idle"]
    /\ req = [h \in Handlers |-> NoRequest]
    /\ loc = [h \in Handlers |-> NoLocals]
    /\ reply = [h \in Handlers |-> NoReply]
    /\ before = [h \in Handlers |-> NoSnapshot]
    /\ accepted = [p \in Paths |-> NoHistory]

\* A handler thread is free to take the next call.
Free(h) == pc[h] \in {"idle", "done"}

\* The call of handler h returns with this reply.
Return(h, r) ==
    /\ pc' = [pc EXCEPT ![h] = "done"]
    /\ reply' = [reply EXCEPT ![h] = r]
    /\ loc' = [loc EXCEPT ![h] = NoLocals]

\* What the history variables keep of path p when a call on it begins.
Snapshot(W, p) ==
    IF W.history
    THEN [file |-> fs[p], version |-> file_versions[p],
          last |-> accepted[p].last]
    ELSE IF W.versions
    THEN [NoSnapshot EXCEPT !.version = file_versions[p]]
    ELSE NoSnapshot

\* ---------------------------------------------------------------- Read
\* Lines 139-153: status and response of Read on the storage `store`.
ReadReply(store, p, off, sz) ==
    IF ~store[p].exists
    THEN [NoReply EXCEPT !.status = "NOT_FOUND"]
    ELSE [NoReply EXCEPT !.status = "OK",
                         !.data = ReadData(store[p].data, off, sz),
                         !.n = ReadCount(store[p].data, off, sz)]

\* Lines 133-154. The ifstream is opened, read and closed within the call.
Read_Call(h, r) ==
    /\ Free(h)
    /\ req' = [req EXCEPT ![h] = r]
    /\ Return(h, ReadReply(fs, r.path, r.offset, r.size))
    /\ before' = [before EXCEPT ![h] = NoSnapshot]
    /\ UNCHANGED <<fs, file_versions, version_mutex, clock, accepted,
                   preexisting>>

\* Read called through the stub of a remote client.
Read(h, W) ==
    \E p \in W.paths, off \in W.offsets, sz \in W.sizes :
        Read_Call(h, [NoRequest EXCEPT !.op = "Read", !.path = p,
                                       !.offset = off, !.size = sz])

\* ---------------------------------------------------------------- GetAttr
\* GetAttr with the test of stat's result inverted.
GetAttrInverted(store, p) ==
    IF ~store[p].exists
    THEN [NoReply EXCEPT !.status = "OK", !.flag = TRUE]
    ELSE [NoReply EXCEPT !.status = "NOT_FOUND"]

\* GetAttr taking the modification time from the version table.
GetAttrFromRecord(store, p) ==
    IF store[p].exists
    THEN [NoReply EXCEPT !.status = "OK", !.flag = TRUE,
                         !.n = Len(store[p].data),
                         !.mtime = Lookup(file_versions, p)]
    ELSE IF file_versions[p] # NoRecord
    THEN [NoReply EXCEPT !.status = "OK", !.flag = TRUE]
    ELSE [NoReply EXCEPT !.status = "NOT_FOUND"]

\* Lines 222-233: status and response of GetAttr on the storage `store`.
GetAttrReply(store, p) ==
    IF store[p].exists
    THEN [NoReply EXCEPT !.status = "OK", !.flag = TRUE,
                         !.n = Len(store[p].data), !.mtime = store[p].mtime]
    ELSE [NoReply EXCEPT !.status = "NOT_FOUND"]

\* Lines 217-234: stat(path).
GetAttr_Call(h, r) ==
    /\ Free(h)
    /\ req' = [req EXCEPT ![h] = r]
    /\ Return(h, GetAttrReply(fs, r.path))
    /\ before' = [before EXCEPT ![h] = NoSnapshot]
    /\ UNCHANGED <<fs, file_versions, version_mutex, clock, accepted,
                   preexisting>>

\* GetAttr called through the stub of a remote client.
GetAttr(h, W) ==
    \E p \in W.paths :
        GetAttr_Call(h, [NoRequest EXCEPT !.op = "GetAttr", !.path = p])

\* ---------------------------------------------------------------- Unlink
\* A removal that reports success and leaves the file where it is.
RemovedNothing(store, p) == store

\* std::remove(path), line 203: the name leaves storage.
Removed(store, p) == [store EXCEPT ![p] = NoFile]

\* A stream another handler holds open on the removed file keeps that file,
\* which no path names any more.
Orphaned(locals, requests, p) ==
    [g \in Handlers |->
        IF requests[g].path = p /\ locals[g].fd = "open"
        THEN [locals[g] EXCEPT !.fd = "orphan"]
        ELSE locals[g]]

\* Lines 205-214: status and response of Unlink on the storage `store`.
UnlinkReply(store, p) ==
    IF store[p].exists
    THEN [NoReply EXCEPT !.status = "OK", !.flag = TRUE]
    ELSE [NoReply EXCEPT !.status = "NOT_FOUND"]

\* An Unlink that erases the record of the path it removes.
VersionsErased(versions, p) == [versions EXCEPT ![p] = NoRecord]

\* Lines 200-215: nothing in Unlink touches file_versions.
VersionsAfterUnlink(versions, p) == versions

\* Lines 200-215.
Unlink_Call(h, W, r) ==
    LET p == r.path
    IN  /\ Free(h)
        /\ req' = [req EXCEPT ![h] = r]
        /\ pc' = [pc EXCEPT ![h] = "done"]
        /\ reply' = [reply EXCEPT ![h] = UnlinkReply(fs, p)]
        /\ IF fs[p].exists
           THEN /\ fs' = Removed(fs, p)
                /\ loc' = Orphaned(loc, req, p)
           ELSE /\ fs' = fs
                /\ loc' = loc
        /\ file_versions' = VersionsAfterUnlink(file_versions, p)
        /\ before' = [before EXCEPT ![h] = Snapshot(W, p)]
        /\ UNCHANGED <<version_mutex, clock, accepted, preexisting>>

\* Unlink called through the stub of a remote client.
Unlink(h, W) ==
    \E p \in W.paths :
        Unlink_Call(h, W, [NoRequest EXCEPT !.op = "Unlink", !.path = p])

\* ---------------------------------------------------------------- Write
\* Lines 156-164: the request is taken and its fields are read.
Write_Call(h, W, r) ==
    /\ Free(h)
    /\ req' = [req EXCEPT ![h] = r]
    /\ pc' = [pc EXCEPT ![h] = "lock1"]
    /\ reply' = [reply EXCEPT ![h] = NoReply]
    /\ loc' = [loc EXCEPT ![h] = NoLocals]
    /\ before' = [before EXCEPT ![h] = Snapshot(W, r.path)]
    /\ UNCHANGED <<fs, file_versions, version_mutex, clock, accepted,
                   preexisting>>

\* Write called through the stub of a remote client.
Write_Begin(h, W) ==
    \E p \in W.paths, off \in W.offsets, d \in W.payloads, c \in W.times :
        Write_Call(h, W, [NoRequest EXCEPT !.op = "Write", !.path = p,
                             !.offset = off, !.data = d, !.mtime = c])

\* Line 167: the first lock_guard takes version_mutex.
Write_Lock1(h) ==
    /\ pc[h] = "lock1"
    /\ version_mutex = NoHolder
    /\ version_mutex' = h
    /\ pc' = [pc EXCEPT ![h] = "find"]
    /\ UNCHANGED <<fs, file_versions, clock, req, loc, reply, before,
                   accepted, preexisting>>

\* A Write whose first lock_guard lives on to the end of the function.
Write_FindHolding(h, W) ==
    LET p == req[h].path
        server_mtime == Lookup(file_versions, p)
    IN  /\ pc[h] = "find"
        /\ version_mutex = h
        /\ version_mutex' = h
        /\ IF Stale(req[h].mtime, server_mtime)
           THEN /\ Return(h, [NoReply EXCEPT !.status = "FAILED_PRECONDITION"])
                /\ accepted' = accepted
           ELSE /\ pc' = [pc EXCEPT ![h] = "open"]
                /\ loc' = [loc EXCEPT ![h].server_mtime = server_mtime]
                /\ reply' = reply
                /\ accepted' = accepted
        /\ UNCHANGED <<fs, file_versions, clock, req, before, preexisting>>

\* A Write that unlocks by hand and forgets to on the rejection path.
Write_FindLeaking(h, W) ==
    LET p == req[h].path
        server_mtime == Lookup(file_versions, p)
    IN  /\ pc[h] = "find"
        /\ version_mutex = h
        /\ IF Stale(req[h].mtime, server_mtime)
           THEN /\ Return(h, [NoReply EXCEPT !.status = "FAILED_PRECONDITION"])
                /\ version_mutex' = h
           ELSE /\ pc' = [pc EXCEPT ![h] = "open"]
                /\ loc' = [loc EXCEPT ![h].server_mtime = server_mtime]
                /\ reply' = reply
                /\ version_mutex' = NoHolder
        /\ UNCHANGED <<fs, file_versions, clock, req, before, accepted,
                       preexisting>>

\* Lines 168-176: the record is looked up, the lock_guard's scope ends, and
\* the admission test either rejects the call or lets it go on to the file.
Write_Find(h, W) ==
    LET p == req[h].path
        server_mtime == Lookup(file_versions, p)
    IN  /\ pc[h] = "find"
        /\ version_mutex = h
        /\ version_mutex' = NoHolder
        /\ IF Stale(req[h].mtime, server_mtime)
           THEN /\ Return(h, [NoReply EXCEPT !.status = "FAILED_PRECONDITION"])
                /\ accepted' = accepted
           ELSE /\ pc' = [pc EXCEPT ![h] = "open"]
                /\ loc' = [loc EXCEPT ![h].server_mtime = server_mtime]
                /\ reply' = reply
                /\ accepted' = IF W.history
                               THEN [accepted EXCEPT ![p] = Admit(@, req[h].mtime)]
                               ELSE accepted
        /\ UNCHANGED <<fs, file_versions, clock, req, before, preexisting>>

\* Lines 179-180: open for read/write; this fails when the file is absent.
Write_Open(h) ==
    LET p == req[h].path
    IN  /\ pc[h] = "open"
        /\ IF fs[p].exists
           THEN /\ loc' = [loc EXCEPT ![h].fd = "open"]
                /\ pc' = [pc EXCEPT ![h] = "write"]
           ELSE /\ loc' = loc
                /\ pc' = [pc EXCEPT ![h] = "create"]
        /\ UNCHANGED <<fs, file_versions, version_mutex, clock, req, reply,
                       before, accepted, preexisting>>

\* Line 183: open(path, out | binary) creates the file, and empties it when
\* it is there by now; line 184 closes it.
Created(store, p, now) ==
    IF Storable(p) THEN [store EXCEPT ![p] = File(<<>>, now)] ELSE store

Write_Create(h) ==
    /\ pc[h] = "create"
    /\ fs' = Created(fs, req[h].path, clock)
    /\ pc' = [pc EXCEPT ![h] = "reopen"]
    /\ UNCHANGED <<file_versions, version_mutex, clock, req, loc, reply,
                   before, accepted, preexisting>>

\* Line 185: the second open for read/write.
Write_Reopen(h) ==
    /\ pc[h] = "reopen"
    /\ loc' = [loc EXCEPT ![h].fd =
                  IF fs[req[h].path].exists THEN "open" ELSE "failed"]
    /\ pc' = [pc EXCEPT ![h] = "write"]
    /\ UNCHANGED <<fs, file_versions, version_mutex, clock, req, reply,
                   before, accepted, preexisting>>

\* The bytes of handler h reach the file its stream is open on; a stream
\* that failed to open, or whose file was removed, changes nothing in storage.
Flushed(store, h) ==
    LET p == req[h].path
    IN  IF loc[h].fd = "open"
        THEN [store EXCEPT ![p] = Stored(@, req[h].offset, req[h].data, clock)]
        ELSE store

\* Lines 188-190: seekp and write. The stream is buffered: the bytes reach
\* the file either here or when the stream is destroyed at the return.
Write_Write(h) ==
    /\ pc[h] = "write"
    /\ \/ /\ fs' = Flushed(fs, h)
          /\ loc' = loc
       \/ /\ loc[h].fd = "open" /\ Len(req[h].data) > 0
          /\ fs' = fs
          /\ loc' = [loc EXCEPT ![h].pending = TRUE]
    /\ pc' = [pc EXCEPT ![h] = "lock2"]
    /\ UNCHANGED <<file_versions, version_mutex, clock, req, reply, before,
                   accepted, preexisting>>

\* Line 193: the second lock_guard takes version_mutex.
Write_Lock2(h) ==
    /\ pc[h] = "lock2"
    /\ version_mutex = NoHolder
    /\ version_mutex' = h
    /\ pc' = [pc EXCEPT ![h] = "update"]
    /\ UNCHANGED <<fs, file_versions, clock, req, loc, reply, before,
                   accepted, preexisting>>

\* A Write that keeps one time for the whole table instead of one per path.
Write_UpdateAll(h) ==
    /\ pc[h] = "update"
    /\ version_mutex = h
    /\ file_versions' = [p \in Paths |-> NewVersion(req[h].mtime, clock)]
    /\ version_mutex' = NoHolder
    /\ pc' = [pc EXCEPT ![h] = "return"]
    /\ UNCHANGED <<fs, clock, req, loc, reply, before, accepted, preexisting>>

\* Lines 194-195: the record is set and the lock_guard's scope ends.
Write_Update(h) ==
    /\ pc[h] = "update"
    /\ version_mutex = h
    /\ file_versions' = [file_versions EXCEPT ![req[h].path] =
                            NewVersion(req[h].mtime, clock)]
    /\ version_mutex' = NoHolder
    /\ pc' = [pc EXCEPT ![h] = "return"]
    /\ UNCHANGED <<fs, clock, req, loc, reply, before, accepted, preexisting>>

\* A Write that reports the failure of its stream instead of OK.
Write_ReturnChecked(h) ==
    /\ pc[h] = "return"
    /\ fs' = IF loc[h].pending THEN Flushed(fs, h) ELSE fs
    /\ Return(h, IF loc[h].fd = "failed"
                 THEN [NoReply EXCEPT !.status = "INTERNAL"]
                 ELSE [NoReply EXCEPT !.status = "OK", !.n = Len(req[h].data)])
    /\ UNCHANGED <<file_versions, version_mutex, clock, req, before, accepted,
                   preexisting>>

\* Lines 190, 197-198: the stream is destroyed, which writes out what is
\* still buffered, and the call returns OK with bytes_written = data.size().
Write_Return(h) ==
    /\ pc[h] = "return"
    /\ fs' = IF loc[h].pending THEN Flushed(fs, h) ELSE fs
    /\ Return(h, [NoReply EXCEPT !.status = "OK", !.n = Len(req[h].data)])
    /\ UNCHANGED <<file_versions, version_mutex, clock, req, before, accepted,
                   preexisting>>

Write(h, W) ==
    \/ Write_Begin(h, W)
    \/ Write_Lock1(h)
    \/ Write_Find(h, W)
    \/ Write_Open(h)
    \/ Write_Create(h)
    \/ Write_Reopen(h)
    \/ Write_Write(h)
    \/ Write_Lock2(h)
    \/ Write_Update(h)
    \/ Write_Return(h)

\* ---------------------------------------------------------------- clock
\* The server's wall clock advances between any two steps.
Tick ==
    /\ clock < MaxClock
    /\ clock' = clock + 1
    /\ UNCHANGED <<fs, file_versions, version_mutex, pc, req, loc, reply,
                   before, accepted, preexisting>>

\* ---------------------------------------------------------------- Next
\* DFSServerImpl, lines 130-235: one of the four calls makes a step.
Handler(h, W) == Read(h, W) \/ Write(h, W) \/ Unlink(h, W) \/ GetAttr(h, W)

NextIn(H, W) == Tick \/ \E h \in H : Handler(h, W)

\* Calls served one after another by one handler thread, with every declared
\* time, on one file.
Versioning ==
    Workload({"a.txt"}, {0}, {1}, {<<>>, <<1>>}, ClientTimes, TRUE)

SeqSpec == InitIn(Versioning) /\ [][NextIn({"h1"}, Versioning)]_vars

\* Calls served one after another, with every offset, size and payload.
Transfers ==
    Workload({"a.txt", ""}, Offsets, Sizes, Payloads, {MaxClock}, TRUE)

DataSpec == InitIn(Transfers) /\ [][NextIn({"h1"}, Transfers)]_vars

\* Writes of every payload at every offset, served one after another, on a
\* file that is there at the start or is created.
Overwriting ==
    Workload({"a.txt"}, Offsets, {1}, Payloads, {MaxClock}, TRUE)

WriteSpec == InitIn(Overwriting) /\ [][NextIn({"h1"}, Overwriting)]_vars

\* Calls served one after another, on every path.
Naming ==
    Workload(Paths, {0}, {1}, {<<2>>}, {MaxClock}, TRUE)

PathSpec == InitIn(Naming) /\ [][NextIn({"h1"}, Naming)]_vars

\* Calls served one after another on two files, with Writes that declare a
\* time below the record and Writes that do not.
Framing ==
    Workload({"a.txt", "b.txt"}, {0}, {1}, {<<2>>}, {0, MaxClock}, FALSE)

FrameSpec == InitIn(Framing) /\ [][NextIn({"h1"}, Framing)]_vars

\* Calls served by concurrent handler threads.
Concurrent ==
    Workload({"a.txt"}, {0}, {1}, {<<1>>, <<2>>}, {0, MaxClock}, FALSE)

Spec == InitIn(Concurrent) /\ [][NextIn(Handlers, Concurrent)]_vars

\* Two handler threads that keep serving calls on one file; the Writes declare
\* time 0, so those that find a record are rejected.
Busy ==
    Workload({"a.txt"}, {0}, {1}, {<<1>>}, {0}, FALSE)

\* The steps of Write in which handler h waits for nothing.
Write_Running(h, W) ==
    \/ Write_Find(h, W)
    \/ Write_Open(h)
    \/ Write_Create(h)
    \/ Write_Reopen(h)
    \/ Write_Write(h)
    \/ Write_Update(h)
    \/ Write_Return(h)

\* Fair scheduling: a thread that can run does run, and a thread that waits
\* for version_mutex gets it when the mutex is free again and again.
Fairness(H, W) ==
    \A h \in H :
        /\ WF_vars(Write_Running(h, W))
        /\ SF_vars(Write_Lock1(h))
        /\ SF_vars(Write_Lock2(h))

FairSpec ==
    /\ InitIn(Busy)
    /\ [][NextIn(Handlers, Busy)]_vars
    /\ Fairness(Handlers, Busy)

\* ------------------------------------------------ the mounted file system
\* errno values; the hooks return them negated.
ENOENT == 2
EIO == 5

\* The paths the kernel hands to the hooks: the mount's root and its files.
MountPaths == {"/", "/a.txt", "/b.txt"}

\* path + 1, lines 22, 40, 57, 71 and 87: the path without its leading "/".
StripSlash(mp) ==
    CASE mp = "/a.txt" -> "a.txt"
      [] mp = "/b.txt" -> "b.txt"
      [] mp = "/" -> ""

\* The mount paths of the workload W.
Mounted(W) == {mp \in MountPaths : StripSlash(mp) \in W.paths}

\* A mount whose clock is not the server's, whatever the workload says.
ClientNowSkewed(W) == ClientTimes

\* std::time(nullptr) in a hook, lines 60 and 74: the server's clock when the
\* mount is on the server's host, the client's own clock otherwise.
ClientNow(W) == IF W.local THEN {clock} ELSE W.times

\* Lines 21-26: the one GetAttr call of dfs_getattr.
dfs_getattr(h, W) ==
    \E mp \in Mounted(W) :
        GetAttr_Call(h, [NoRequest EXCEPT !.op = "GetAttr",
                            !.path = StripSlash(mp), !.via = "dfs_getattr"])

\* Lines 39-46: the one Read call of dfs_read.
dfs_read(h, W) ==
    \E mp \in Mounted(W), off \in W.offsets, sz \in W.sizes :
        Read_Call(h, [NoRequest EXCEPT !.op = "Read", !.path = StripSlash(mp),
                         !.offset = off, !.size = sz, !.via = "dfs_read"])

\* Lines 55-65: the one Write call of dfs_create, with empty data at offset 0.
dfs_create(h, W) ==
    \E mp \in Mounted(W), now \in ClientNow(W) :
        Write_Call(h, W, [NoRequest EXCEPT !.op = "Write",
                             !.path = StripSlash(mp), !.offset = 0,
                             !.data = <<>>, !.mtime = now,
                             !.via = "dfs_create"])

\* Lines 70-79: the one Write call of dfs_write.
dfs_write(h, W) ==
    \E mp \in Mounted(W), off \in W.offsets, d \in W.payloads,
       now \in ClientNow(W) :
        Write_Call(h, W, [NoRequest EXCEPT !.op = "Write",
                             !.path = StripSlash(mp), !.offset = off,
                             !.data = d, !.mtime = now, !.via = "dfs_write"])

\* Lines 86-91: the one Unlink call of dfs_unlink.
dfs_unlink(h, W) ==
    \E mp \in Mounted(W) :
        Unlink_Call(h, W, [NoRequest EXCEPT !.op = "Unlink",
                              !.path = StripSlash(mp), !.via = "dfs_unlink"])

\* dfs_write returning the reply's count without looking at the status.
dfs_write_unchecked(r) == r.n

\* Line 28 and line 35: what dfs_getattr returns for the reply r.
dfs_getattr_return(r) ==
    IF r.status # "OK" \/ ~r.flag THEN 0 - ENOENT ELSE 0

\* Lines 48-51: what dfs_read returns.
dfs_read_return(r) == IF r.status # "OK" THEN 0 - EIO ELSE r.n

\* Line 66: what dfs_create returns.
dfs_create_return(r) == IF r.status = "OK" THEN 0 ELSE 0 - EIO

\* Lines 80-82: what dfs_write returns.
dfs_write_return(r) == IF r.status # "OK" THEN 0 - EIO ELSE r.n

\* Line 92: what dfs_unlink returns.
dfs_unlink_return(r) ==
    IF r.status = "OK" /\ r.flag THEN 0 ELSE 0 - ENOENT

\* What the hook that issued the call of handler h returns to the kernel,
\* once the reply is there.
HookReturn(h) ==
    CASE req[h].via = "dfs_getattr" -> dfs_getattr_return(reply[h])
      [] req[h].via = "dfs_read" -> dfs_read_return(reply[h])
      [] req[h].via = "dfs_create" -> dfs_create_return(reply[h])
      [] req[h].via = "dfs_write" -> dfs_write_return(reply[h])
      [] req[h].via = "dfs_unlink" -> dfs_unlink_return(reply[h])

\* Lines 19-93: a hook is entered and issues its call.
Hook(h, W) ==
    \/ dfs_getattr(h, W)
    \/ dfs_read(h, W)
    \/ dfs_create(h, W)
    \/ dfs_write(h, W)
    \/ dfs_unlink(h, W)

\* Lines 166-198: the steps of Write after the request is taken.
Write_Steps(h, W) ==
    \/ Write_Lock1(h)
    \/ Write_Find(h, W)
    \/ Write_Open(h)
    \/ Write_Create(h)
    \/ Write_Reopen(h)
    \/ Write_Write(h)
    \/ Write_Lock2(h)
    \/ Write_Update(h)
    \/ Write_Return(h)

MountNextIn(H, W) == Tick \/ \E h \in H : Hook(h, W) \/ Write_Steps(h, W)

\* One mount whose clock is its own, on one file and on the mount's root.
Mount ==
    Workload({"a.txt", ""}, {0}, {1}, {<<1>>}, {0, MaxClock}, TRUE)

MountSpec == InitIn(Mount) /\ [][MountNextIn({"h1"}, Mount)]_vars

\* Two mounts on the server's host (line 99 connects to localhost), which
\* read the server's clock, at work on one file at the same time.
Local ==
    [Workload({"a.txt"}, {0}, {1}, {<<1>>}, {}, FALSE)
        EXCEPT !.local = TRUE, !.versions = TRUE]

LocalSpec == InitIn(Local) /\ [][MountNextIn(Handlers, Local)]_vars

\* ================================================================ claims
\* The path of the call handler h serves.
PathOf(h) == req[h].path

\* Handler h serves, or has served, a Write.
IsWrite(h) == req[h].op = "Write"

\* The Write of handler h was turned away by the admission test.
Rejected(h) ==
    IsWrite(h) /\ pc[h] = "done" /\ reply[h].status = "FAILED_PRECONDITION"

\* The Write of handler h has not gone beyond the admission test.
NotAdmitted(h) ==
    /\ pc[h] \in {"lock1", "find", "done"}
    /\ pc[h] = "done" => reply[h].status = "FAILED_PRECONDITION"

\* C1: a Write whose client_mtime is below the record of its path is rejected
\* with FAILED_PRECONDITION, and the file (existence, contents, size, mtime as
\* GetAttr and Read report them) and the record are what they were before it.
C1_StaleWriteChangesNothing ==
    \A h \in Handlers :
        (/\ IsWrite(h)
         /\ before[h].version # NoRecord
         /\ req[h].mtime < before[h].version)
        => /\ NotAdmitted(h)
           /\ fs[PathOf(h)] = before[h].file
           /\ GetAttrReply(fs, PathOf(h))
                = GetAttrReply([fs EXCEPT ![PathOf(h)] = before[h].file], PathOf(h))
           /\ file_versions[PathOf(h)] = before[h].version

\* A stale Write of a non-empty payload to a file that exists was rejected.
C1_Witness ==
    \E h \in Handlers :
        /\ Rejected(h)
        /\ req[h].mtime < before[h].version
        /\ before[h].file.exists
        /\ Len(req[h].data) > 0

\* Handler h takes the step in which the bytes of its Write reach the file,
\* before it has set the record itself.
StoresBytes(h) ==
    /\ pc[h] = "write"
    /\ pc'[h] = "lock2"
    /\ fs'[PathOf(h)] # fs[PathOf(h)]

\* C2: in every interleaving, no Write stores its bytes while the record of
\* its path (as another Write left it) is strictly greater than its
\* client_mtime.
C2_NoStoreBelowRecord ==
    [][\A h \in Handlers :
         StoresBytes(h)
             => \/ file_versions[PathOf(h)] = NoRecord
                \/ req[h].mtime >= file_versions[PathOf(h)]]_vars

\* C3: in a sequence of Writes to one path, served one after another, with
\* strictly increasing client_mtime, the admission test rejects no Write whose
\* client_mtime is above that of every Write admitted before it.
C3_IncreasingNeverRejected ==
    \A h \in Handlers :
        Rejected(h)
        => ~(/\ accepted[PathOf(h)].increasing
             /\ req[h].mtime > accepted[PathOf(h)].max)

\* C4: a Write whose client_mtime is strictly older than that of the Write
\* most recently admitted for its path is always rejected.
C4_OlderAlwaysRejected ==
    \A h \in Handlers :
        (/\ IsWrite(h)
         /\ before[h].last # NoRecord
         /\ req[h].mtime < before[h].last)
        => NotAdmitted(h)

\* Handler h has returned from a call of operation op.
Served(h, op) == req[h].op = op /\ pc[h] = "done"

\* The reply of a call that failed with NOT_FOUND.
NotFound == [NoReply EXCEPT !.status = "NOT_FOUND"]

\* C5: after a Write of N bytes at offset 0 to a fresh path (absent, no
\* record) has returned OK, Read(path, 0, N) returns OK, bytes_read = N and
\* exactly the bytes written.
C5_RoundTrip ==
    \A h \in Handlers :
        (/\ Served(h, "Write")
         /\ reply[h].status = "OK"
         /\ req[h].offset = 0
         /\ ~before[h].file.exists
         /\ before[h].version = NoRecord)
        => ReadReply(fs, PathOf(h), 0, Len(req[h].data))
             = [NoReply EXCEPT !.status = "OK", !.data = req[h].data,
                               !.n = Len(req[h].data)]

\* C6: Read(path, offset, size) on a file of length L returns OK with
\* bytes_read = min(size, max(0, L - offset)) and a data field that holds
\* exactly those bytes_read bytes of the file from offset on.
C6_ReadReturnsBytesRead ==
    \A h \in Handlers :
        (Served(h, "Read") /\ fs[PathOf(h)].exists)
        => LET L == Len(fs[PathOf(h)].data)
               n == Min(req[h].size, Max(0, L - req[h].offset))
           IN  /\ reply[h].status = "OK"
               /\ reply[h].n = n
               /\ Len(reply[h].data) = reply[h].n
               /\ reply[h].data
                    = SubSeq(fs[PathOf(h)].data, req[h].offset + 1,
                             req[h].offset + n)

\* After an Unlink has returned: it succeeded exactly when the path was in
\* storage, and GetAttr and a second Unlink now fail with NOT_FOUND.
UnlinkOutcome ==
    \A h \in Handlers :
        Served(h, "Unlink")
        => /\ before[h].file.exists
                => reply[h].status = "OK" /\ reply[h].flag
           /\ ~before[h].file.exists
                => reply[h].status = "NOT_FOUND" /\ ~reply[h].flag
           /\ GetAttrReply(fs, PathOf(h)) = NotFound
           /\ UnlinkReply(fs, PathOf(h)) = NotFound

\* A path comes to exist only by the create step of a Write to it.
OnlyWriteCreates ==
    \A p \in Paths :
        (~fs[p].exists /\ fs'[p].exists)
        => \E h \in Handlers :
               /\ IsWrite(h) /\ PathOf(h) = p
               /\ pc[h] = "create" /\ pc'[h] = "reopen"

\* C7: Unlink on a path in storage returns OK with success = true, and GetAttr
\* then reports exists = false until a Write to the path is admitted and
\* creates it; Unlink on an absent path fails with NOT_FOUND, success = false,
\* so a second Unlink directly after a successful one fails.
C7_UnlinkThenAbsent == []UnlinkOutcome /\ [][OnlyWriteCreates]_vars

\* A file written through the service has been unlinked with success.
C7_Witness ==
    \E h \in Handlers :
        /\ Served(h, "Unlink")
        /\ reply[h].status = "OK"
        /\ before[h].file.exists
        /\ before[h].version # NoRecord
        /\ ~fs[PathOf(h)].exists

\* No Write to path p was ever admitted.
NeverWritten(p) == accepted[p].max = NoRecord

\* GetAttr reports exists = false, and Read and Unlink fail with NOT_FOUND.
ReportsAbsent(p) ==
    /\ GetAttrReply(fs, p) = NotFound
    /\ UnlinkReply(fs, p) = NotFound
    /\ \A off \in Offsets, sz \in Sizes : ReadReply(fs, p, off, sz) = NotFound

\* C8, as stated: every path never the target of an accepted Write is
\* reported absent by GetAttr, Read and Unlink.
C8_NeverWrittenAbsent ==
    \A p \in Paths : NeverWritten(p) => ReportsAbsent(p)

\* C8, amended: every path that was not in storage when the server started
\* and has never been the target of an admitted Write is reported absent by
\* GetAttr, Read and Unlink, after any sequence of calls on other paths.
C8_NeverWrittenNorPreexistingAbsent ==
    \A p \in Paths :
        (NeverWritten(p) /\ p \notin preexisting) => ReportsAbsent(p)

\* GetAttr has failed on a storable path never written, after a Write
\* elsewhere has put a file in storage.
C8_Witness ==
    \E h \in Handlers, q \in Paths :
        /\ Served(h, "GetAttr")
        /\ reply[h] = NotFound
        /\ Storable(PathOf(h))
        /\ NeverWritten(PathOf(h))
        /\ q # PathOf(h) /\ ~NeverWritten(q) /\ fs[q].exists
        /\ q \notin preexisting

\* C9: Unlink leaves the record of its path as it was, and a later Write to
\* the unlinked path with client_mtime below that record is rejected with
\* FAILED_PRECONDITION and does not recreate the file.
C9_UnlinkKeepsRecord ==
    \A h \in Handlers :
        /\ Served(h, "Unlink")
             => file_versions[PathOf(h)] = before[h].version
        /\ (/\ IsWrite(h)
            /\ ~before[h].file.exists
            /\ before[h].version # NoRecord
            /\ req[h].mtime < before[h].version)
           => /\ NotAdmitted(h)
              /\ ~fs[PathOf(h)].exists
              /\ file_versions[PathOf(h)] = before[h].version

\* A Write to a path that was written and then unlinked has been rejected.
C9_Witness ==
    \E h \in Handlers :
        /\ Rejected(h)
        /\ Storable(PathOf(h))
        /\ ~before[h].file.exists
        /\ before[h].version # NoRecord
        /\ ~fs[PathOf(h)].exists

\* C10: the step that updates the record sets it to the server's clock, not to
\* the request's client_mtime, and the admission step lets the Write through
\* exactly when its client_mtime is not below the record found (0 if none).
C10_RecordIsServerTime ==
    [][\A h \in Handlers :
         /\ (pc[h] = "update" /\ pc'[h] = "return")
              => file_versions'[PathOf(h)] = clock
         /\ (pc[h] = "find" /\ pc'[h] # "find")
              => (pc'[h] = "open"
                    <=> req[h].mtime >=
                          (IF file_versions[PathOf(h)] = NoRecord THEN 0
                           ELSE file_versions[PathOf(h)]))]_vars

\* A Write admitted against an earlier record has set the record to a server
\* time that differs from its client_mtime.
C10_Witness ==
    \E h \in Handlers :
        /\ IsWrite(h)
        /\ pc[h] = "return"
        /\ before[h].version # NoRecord
        /\ file_versions[PathOf(h)] = clock
        /\ file_versions[PathOf(h)] # req[h].mtime

\* C11: GetAttr reports the state of storage: exists is true exactly when the
\* path is in storage, size and mtime are those of the file there, and a path
\* not in storage is NOT_FOUND with no size and no mtime, whatever the version
\* table holds for the path.
C11_GetAttrReportsStorage ==
    \A h \in Handlers :
        Served(h, "GetAttr")
        => /\ reply[h].flag <=> fs[PathOf(h)].exists
           /\ reply[h].status = (IF fs[PathOf(h)].exists THEN "OK" ELSE "NOT_FOUND")
           /\ fs[PathOf(h)].exists
                => /\ reply[h].n = Len(fs[PathOf(h)].data)
                   /\ reply[h].mtime = fs[PathOf(h)].mtime
           /\ ~fs[PathOf(h)].exists => reply[h] = NotFound

\* GetAttr has answered for a file whose record differs from its mtime in
\* storage, or for an unlinked path that still has a record.
C11_Witness ==
    \E h \in Handlers :
        /\ Served(h, "GetAttr")
        /\ file_versions[PathOf(h)] # NoRecord
        /\ \/ /\ fs[PathOf(h)].exists
              /\ file_versions[PathOf(h)] # fs[PathOf(h)].mtime
              /\ reply[h].mtime = fs[PathOf(h)].mtime
           \/ /\ ~fs[PathOf(h)].exists
              /\ Storable(PathOf(h))
              /\ reply[h] = NotFound

\* Handler h has returned from a call that the hook `hook` issued.
Hooked(h, hook) == req[h].via = hook /\ pc[h] = "done"

\* C12: each hook maps the outcome of its one call to one result: dfs_write
\* returns the reply's bytes_written on OK and -EIO on a failure, the stale
\* rejection included; dfs_read returns bytes_read on OK and -EIO on a failure;
\* dfs_create returns 0 on OK and -EIO on a failure; dfs_unlink returns 0 only
\* for OK with success = true, else -ENOENT; dfs_getattr returns 0 only for OK
\* with exists = true, else -ENOENT.
C12_HookResults ==
    \A h \in Handlers :
        /\ Hooked(h, "dfs_write")
             => /\ req[h].op = "Write"
                /\ reply[h].status = "OK"
                     => HookReturn(h) = reply[h].n /\ reply[h].n = Len(req[h].data)
                /\ reply[h].status # "OK" => HookReturn(h) = 0 - EIO
                /\ Rejected(h) => HookReturn(h) = 0 - EIO
        /\ Hooked(h, "dfs_read")
             => /\ req[h].op = "Read"
                /\ reply[h].status = "OK" => HookReturn(h) = reply[h].n
                /\ reply[h].status # "OK" => HookReturn(h) = 0 - EIO
        /\ Hooked(h, "dfs_create")
             => /\ req[h].op = "Write"
                /\ reply[h].status = "OK" => HookReturn(h) = 0
                /\ reply[h].status # "OK" => HookReturn(h) = 0 - EIO
        /\ Hooked(h, "dfs_unlink")
             => /\ req[h].op = "Unlink"
                /\ (reply[h].status = "OK" /\ reply[h].flag) => HookReturn(h) = 0
                /\ ~(reply[h].status = "OK" /\ reply[h].flag)
                     => HookReturn(h) = 0 - ENOENT
        /\ Hooked(h, "dfs_getattr")
             => /\ req[h].op = "GetAttr"
                /\ (reply[h].status = "OK" /\ reply[h].flag) => HookReturn(h) = 0
                /\ ~(reply[h].status = "OK" /\ reply[h].flag)
                     => HookReturn(h) = 0 - ENOENT

\* dfs_write has returned -EIO for a Write of one byte that the admission test
\* turned away.
C12_Witness ==
    \E h \in Handlers :
        /\ Hooked(h, "dfs_write")
        /\ Rejected(h)
        /\ Len(req[h].data) > 0
        /\ HookReturn(h) = 0 - EIO

\* The Write of handler h has passed the admission test and has not yet set
\* the record.
Admitted(h) ==
    /\ IsWrite(h)
    /\ pc[h] \in {"open", "create", "reopen", "write", "lock2", "update"}

\* Two Writes to one path have both passed admission, and neither has set the
\* record.
Racing(h, g) ==
    h # g /\ Admitted(h) /\ Admitted(g) /\ PathOf(h) = PathOf(g)

\* version_mutex is held in the two lock_guard scopes of Write and nowhere
\* else: not while the file is opened, created or written, not at the return.
TwoCriticalSections ==
    \A h \in Handlers : version_mutex = h <=> pc[h] \in {"find", "update"}

\* A step taken while two Writes race: neither is turned away, and the one
\* whose stream writes its bytes out leaves them in the file at its offset.
RaceStep(h, g) ==
    Racing(h, g)
    => /\ reply'[h].status # "FAILED_PRECONDITION"
       /\ pc'[h] # "done"
       /\ (/\ pc[h] = "write" /\ pc'[h] = "lock2"
           /\ loc[h].fd = "open" /\ ~loc'[h].pending)
          => SubSeq(fs'[PathOf(h)].data, req[h].offset + 1,
                    req[h].offset + Len(req[h].data)) = req[h].data

\* C13: the admission test and the update of the record are two critical
\* sections of Write with the file I/O between them outside the lock, so two
\* Writes to one path can both be past admission before either sets the
\* record; from there on neither is rejected, both store their bytes and both
\* return OK.
C13_BothPassAdmission ==
    /\ []TwoCriticalSections
    /\ [][\A h, g \in Handlers : RaceStep(h, g)]_vars
    /\ [][\A h \in Handlers :
            (pc[h] = "return" /\ pc'[h] = "done")
            => /\ reply'[h].status = "OK"
               /\ reply'[h].n = Len(req[h].data)]_vars

\* Two Writes to one path that declared time 0 have both returned OK, which
\* the record set by either would have forbidden the other; the file holds
\* the bytes of the one that stored last.
C13_Witness ==
    \E h, g \in Handlers :
        /\ h # g
        /\ Served(h, "Write") /\ Served(g, "Write")
        /\ PathOf(h) = PathOf(g)
        /\ reply[h].status = "OK" /\ reply[g].status = "OK"
        /\ req[h].mtime = 0 /\ req[g].mtime = 0
        /\ req[h].data # req[g].data
        /\ file_versions[PathOf(h)] > 0
        /\ fs[PathOf(h)].data = req[h].data

\* C14: the record of a path never decreases, in every interleaving of the
\* four calls and with a server clock that does not go back: once a path has
\* a record, no step removes it or puts a smaller value in its place.
C14_RecordNeverDecreases ==
    [][\A p \in Paths :
         file_versions[p] # NoRecord
         => /\ file_versions'[p] # NoRecord
            /\ file_versions'[p] >= file_versions[p]]_vars

\* Two interleaved Writes to one path (both declared time 0, so both passed
\* admission before either set the record) have both set the record, the
\* second at a later clock than where the clock started.
C14_Witness ==
    \E h, g \in Handlers :
        /\ h # g
        /\ IsWrite(h) /\ IsWrite(g) /\ PathOf(h) = PathOf(g)
        /\ req[h].mtime = 0 /\ req[g].mtime = 0
        /\ pc[h] = "return"
        /\ pc[g] \in {"return", "done"}
        /\ reply[g].status # "FAILED_PRECONDITION"
        /\ file_versions[PathOf(h)] = MaxClock

\* C15: an accepted Write of non-empty data d at offset o to a file of length
\* L (0 when the file was absent and is created) does not truncate: afterwards
\* the file is there with length max(L, o + len(d)), bytes [o, o + len(d)) are
\* d, every other byte the file had is unchanged, and bytes [L, o) are zero.
C15_WriteNeverTruncates ==
    \A h \in Handlers :
        (/\ Served(h, "Write")
         /\ reply[h].status = "OK"
         /\ Len(req[h].data) > 0
         /\ Storable(PathOf(h)))
        => LET old == before[h].file.data
               new == fs[PathOf(h)].data
               L == IF before[h].file.exists THEN Len(old) ELSE 0
               o == req[h].offset
               n == Len(req[h].data)
           IN  /\ fs[PathOf(h)].exists
               /\ Len(new) = Max(L, o + n)
               /\ SubSeq(new, o + 1, o + n) = req[h].data
               /\ \A i \in 1..L : (i <= o \/ i > o + n) => new[i] = old[i]
               /\ \A i \in (L + 1)..o : new[i] = 0

\* A Write that ends before the end of the file has kept the bytes behind
\* it.
C15_Witness ==
    \E h \in Handlers :
        /\ Served(h, "Write")
        /\ reply[h].status = "OK"
        /\ before[h].file.exists
        /\ Len(before[h].file.data) > req[h].offset + Len(req[h].data)
        /\ Len(req[h].data) > 0
        /\ Len(fs[PathOf(h)].data) = Len(before[h].file.data)
        /\ fs[PathOf(h)].data # before[h].file.data

\* What dfs_create leaves behind, on the paths P: its one call is a Write of
\* no bytes at offset 0; admitted on an absent path it leaves an empty file;
\* admitted on a file it leaves the contents as they were and sets the record;
\* declared below the record it returns -EIO and storage is as it was.
CreateOutcome(P) ==
    \A h \in Handlers :
        (Hooked(h, "dfs_create") /\ PathOf(h) \in P)
        => /\ req[h].op = "Write" /\ req[h].data = <<>> /\ req[h].offset = 0
           /\ (reply[h].status = "OK" /\ ~before[h].file.exists)
                => /\ HookReturn(h) = 0
                   /\ fs[PathOf(h)].exists
                   /\ fs[PathOf(h)].data = <<>>
           /\ (reply[h].status = "OK" /\ before[h].file.exists)
                => /\ HookReturn(h) = 0
                   /\ fs[PathOf(h)].exists
                   /\ fs[PathOf(h)].data = before[h].file.data
                   /\ file_versions[PathOf(h)] # NoRecord
                   /\ file_versions[PathOf(h)] >= before[h].version
           /\ (before[h].version # NoRecord /\ req[h].mtime < before[h].version)
                => /\ Rejected(h)
                   /\ HookReturn(h) = 0 - EIO
                   /\ fs[PathOf(h)] = before[h].file

\* C16: dfs_create issues a Write with empty data at offset 0 and the current
\* time; admitted on an absent path it leaves a zero-length file present;
\* admitted on an existing path it leaves contents and size unchanged and
\* still advances the record; with the current time below the record it fails
\* with -EIO and creates nothing.
C16_CreateOutcome == CreateOutcome(Paths)

\* C17: every Write that passes admission returns OK with bytes_written =
\* len(data) and sets the record of its path, whether or not storage could
\* open, create or write the file: the record is there afterwards, not below
\* what it was, and a later Write that declares a time below it is stale.
C17_AdmittedWriteReportsSuccess ==
    \A h \in Handlers :
        (Served(h, "Write") /\ ~Rejected(h))
        => /\ reply[h].status = "OK"
           /\ reply[h].n = Len(req[h].data)
           /\ file_versions[PathOf(h)] # NoRecord
           /\ file_versions[PathOf(h)] >= before[h].version
           /\ file_versions[PathOf(h)] \in ServerTimes
           /\ \A c \in ClientTimes :
                 c < file_versions[PathOf(h)]
                 => Stale(c, Lookup(file_versions, PathOf(h)))

\* A Write of one byte whose file could not be opened or created has
\* returned OK with bytes_written = 1 and has set the record; the path is not
\* in storage and Read fails on it.
C17_Witness ==
    \E h \in Handlers :
        /\ Served(h, "Write")
        /\ reply[h].status = "OK"
        /\ reply[h].n = Len(req[h].data)
        /\ Len(req[h].data) > 0
        /\ ~Storable(PathOf(h))
        /\ before[h].version = NoRecord
        /\ file_versions[PathOf(h)] # NoRecord
        /\ ~fs[PathOf(h)].exists
        /\ ReadReply(fs, PathOf(h), 0, Len(req[h].data)) = NotFound

\* Handler h, and no other, takes a step in which it serves a call of `op`
\* from its first line on.
Calls(h, op) ==
    /\ Free(h)
    /\ req'[h].op = op
    /\ pc'[h] \in {"done", "lock1"}
    /\ clock' = clock
    /\ \A g \in Handlers \ {h} :
           pc'[g] = pc[g] /\ req'[g] = req[g] /\ reply'[g] = reply[g]

\* The version table changes only in the update step of a Write, and then
\* only at the path of that Write.
OnlyWriteUpdates ==
    \A p \in Paths :
        file_versions'[p] # file_versions[p]
        => \E h \in Handlers :
               /\ IsWrite(h) /\ PathOf(h) = p
               /\ pc[h] = "update" /\ pc'[h] = "return"
               /\ \A q \in Paths \ {p} : file_versions'[q] = file_versions[q]

\* Storage changes only at the path of a Write or an Unlink being served.
OnlyOwnPath ==
    \A p \in Paths :
        fs'[p] # fs[p]
        => \E h \in Handlers :
               /\ req'[h].op \in {"Write", "Unlink"}
               /\ req'[h].path = p
               /\ \A q \in Paths \ {p} : fs'[q] = fs[q]

\* C18: only an accepted Write changes the version table, and only the entry
\* of its own path; Read, GetAttr, Unlink and a rejected Write leave every
\* record as it was; Read and GetAttr leave storage as it was; Write and
\* Unlink on a path leave the contents and existence of every other path.
C18_Frame ==
    [][/\ OnlyWriteUpdates
       /\ OnlyOwnPath
       /\ \A h \in Handlers :
            /\ (Calls(h, "Read") \/ Calls(h, "GetAttr"))
                 => fs' = fs /\ file_versions' = file_versions
            /\ Calls(h, "Unlink") => file_versions' = file_versions
            /\ (IsWrite(h) /\ pc[h] = "find" /\ pc'[h] = "done")
                 => fs' = fs /\ file_versions' = file_versions]_vars

\* A Write has been rejected, which left the file and the record of its path
\* as they were, while another path has a file and a record of its own, set
\* at another time.
C18_Witness ==
    \E h \in Handlers, q \in Paths :
        /\ Rejected(h)
        /\ fs[PathOf(h)].exists
        /\ q # PathOf(h)
        /\ fs[q].exists
        /\ file_versions[q] # NoRecord
        /\ file_versions[PathOf(h)] # NoRecord
        /\ file_versions[q] # file_versions[PathOf(h)]

\* Read, GetAttr and Unlink take no lock and wait for nothing: the call has
\* returned as soon as it is served.
NothingToWaitFor ==
    \A h \in Handlers :
        req[h].op \in {"Read", "GetAttr", "Unlink"} => pc[h] = "done"

\* Whoever holds version_mutex can take its next step, which releases it.
HolderRuns ==
    \A h \in Handlers :
        version_mutex = h
        => \/ pc[h] = "find" /\ ENABLED Write_Find(h, Busy)
           \/ pc[h] = "update" /\ ENABLED Write_Update(h)

C20_RejectedOnlyWhenOvertaken ==
    \A h \in Handlers :
        IsWrite(h)
        => /\ before[h].version <= req[h].mtime
           /\ (pc[h] = "find" /\ file_versions[PathOf(h)] = before[h].version)
                => ~Stale(req[h].mtime, Lookup(file_versions, PathOf(h)))
           /\ Rejected(h)
                => /\ file_versions[PathOf(h)] > req[h].mtime
                   /\ file_versions[PathOf(h)] > before[h].version

\* dfs_write has failed on a Write that took its time before, and came to
\* its admission test after, the other mount's Write set the record at a
\* later clock value.
C20_Witness ==
    \E h, g \in Handlers :
        /\ h # g
        /\ Hooked(h, "dfs_write")
        /\ Rejected(h)
        /\ HookReturn(h) = 0 - EIO
        /\ before[h].version <= req[h].mtime
        /\ file_versions[PathOf(h)] > req[h].mtime
        /\ IsWrite(g) /\ PathOf(g) = PathOf(h)
        /\ pc[g] \in {"return", "done"}
        /\ reply[g].status # "FAILED_PRECONDITION"
        /\ req[g].mtime <= file_versions[PathOf(h)]

====
